---- MODULE Spec2Model ----
(***************************************************************************)
(* A model of the tuf-js client: the Updater's refresh workflow and target *)
(* lookup (src/src/fetcher.ts), the metadata model it verifies with        *)
(* (src/unnamed/part_002), the bounded fetch (FetcherInterface) and the    *)
(* trusted metadata store the Updater drives.                              *)
(*                                                                         *)
(* Metadata documents are modelled after parsing: a record holding the     *)
(* fields the client reads.  A document's `sigs` is the set of keyids      *)
(* whose signature over the document the external verifier accepts.        *)
(* Time is a counter `now`; a document's `expires` is a point of it.       *)
(***************************************************************************)
EXTENDS Integers, Sequences, FiniteSets, TLC

\* ------------------------------------------------------------------ bounds
MaxTime == 1            \* the clock runs 0..MaxTime
MaxVer == 2             \* versions of timestamp, snapshot and targets offered
maxRootRotations == 1   \* config.maxRootRotations, scaled down
maxDelegations == 1     \* config.maxDelegations, scaled down
MaxChunks == 2          \* chunks of a stream
MaxChunkLen == 2        \* bytes of a chunk
MaxLength == 3          \* the largest maxLength asked for

Keys == {"k1", "k2"}
TopRoles == {"root", "timestamp", "snapshot", "targets"}
DelegatedNames == {"A", "B"}
TargetsRoleNames == {"targets"} \cup DelegatedNames
TargetPaths == {"p"}

Expiries == 1..(MaxTime + 1)
RootVersions == 1..(maxRootRotations + 2)
Versions == 1..MaxVer

NoDoc == [type |-> "none"]
NoRole == [keyids |-> {}, threshold |-> 0]
Err == [type |-> "error"]

\* ------------------------------------------------------- metadata model

isExpiredLate(signed, referenceTime) == referenceTime > signed.expires

\* Signed.isExpired: referenceTime >= new Date(this.expires)
isExpired(signed, referenceTime) == referenceTime >= signed.expires

fromJSONAnyTargets(type, data) == data.type = type \/ type = "targets"

\* Metadata.fromJSON: the document parses as `type` only if signed._type
\* equals it.
fromJSON(type, data) == data.type = type

\* Key.verifySignature: throws unless the metadata carries a signature of
\* this key that the verifier accepts.  TRUE = returns normally.
verifySignature(keyID, metadata) == keyID \in metadata.sigs

\* The role and the keys a Root declares for a delegated role.
RootDelegate(root, delegatedRole) ==
    [role |-> IF delegatedRole \in DOMAIN root.roles
                THEN root.roles[delegatedRole] ELSE NoRole,
     keys |-> root.keys]

\* The role and the keys a Targets' delegations declare for a delegated role.
TargetsDelegate(targets, delegatedRole) ==
    LET hits == SelectSeq(targets.delegations, LAMBDA r : r.name = delegatedRole)
    IN [role |-> IF Len(hits) > 0
                   THEN [keyids |-> hits[1].keyids, threshold |-> hits[1].threshold]
                   ELSE NoRole,
        keys |-> Keys]

verifyDelegateNoThreshold(authority, delegatedRole, delegatedMetadata) ==
    LET d == IF authority.type = "root"
               THEN RootDelegate(authority, delegatedRole)
               ELSE TargetsDelegate(authority, delegatedRole)
        signingKeys == {k \in d.role.keyids :
                          k \in d.keys /\ verifySignature(k, delegatedMetadata)}
    IN /\ d.role # NoRole
       /\ signingKeys = d.role.keyids

\* Metadata.verifyDelegate.  TRUE = returns normally, FALSE = throws.
\* Every keyid of the role must be in the key map and must verify (a
\* failure inside forEach is rethrown); then the count is compared with
\* the threshold.
verifyDelegate(authority, delegatedRole, delegatedMetadata) ==
    LET d == IF authority.type = "root"
               THEN RootDelegate(authority, delegatedRole)
               ELSE TargetsDelegate(authority, delegatedRole)
        signingKeys == {k \in d.role.keyids :
                          k \in d.keys /\ verifySignature(k, delegatedMetadata)}
    IN /\ d.role # NoRole
       /\ signingKeys = d.role.keyids
       /\ ~(Cardinality(signingKeys) < d.role.threshold)

\* ---------------------------------------------------------- trusted set
\* TrustedMetadataStore: root, timestamp, snapshot and the targets roles.

Result(err, set) == [err |-> err, set |-> set]

NoTargets == [r \in TargetsRoleNames |-> NoDoc]

getRole(set, role) == set.targets[role]

updateRootAnyNewer(set, data) ==
    IF set.snapshot # NoDoc THEN Result("RuntimeError", set)
    ELSE IF ~fromJSON("root", data) THEN Result("MalformedMetadata", set)
    ELSE IF ~verifyDelegate(set.root, "root", data) THEN Result("UnsignedMetadata", set)
    ELSE IF ~verifyDelegate(data, "root", data) THEN Result("UnsignedMetadata", set)
    ELSE IF data.version <= set.root.version THEN Result("BadVersion", set)
    ELSE Result("ok", [set EXCEPT !.root = data])

updateRoot(set, data) ==
    IF set.snapshot # NoDoc THEN Result("RuntimeError", set)
    ELSE IF ~fromJSON("root", data) THEN Result("MalformedMetadata", set)
    ELSE IF ~verifyDelegate(set.root, "root", data) THEN Result("UnsignedMetadata", set)
    ELSE IF ~verifyDelegate(data, "root", data) THEN Result("UnsignedMetadata", set)
    ELSE IF data.version # set.root.version + 1 THEN Result("BadVersion", set)
    ELSE Result("ok", [set EXCEPT !.root = data])

updateTimestampNoRollback(set, data, referenceTime) ==
    IF set.root = NoDoc THEN Result("RuntimeError", set)
    ELSE IF isExpired(set.root, referenceTime) THEN Result("ExpiredMetadata", set)
    ELSE IF ~fromJSON("timestamp", data) THEN Result("MalformedMetadata", set)
    ELSE IF ~verifyDelegate(set.root, "timestamp", data) THEN Result("UnsignedMetadata", set)
    ELSE IF set.timestamp # NoDoc /\ data.version = set.timestamp.version
      THEN Result("EqualVersion", set)
    ELSE IF isExpired(data, referenceTime) THEN Result("ExpiredMetadata", set)
    ELSE Result("ok", [set EXCEPT !.timestamp = data])

updateTimestamp(set, data, referenceTime) ==
    IF set.root = NoDoc THEN Result("RuntimeError", set)
    ELSE IF isExpired(set.root, referenceTime) THEN Result("ExpiredMetadata", set)
    ELSE IF ~fromJSON("timestamp", data) THEN Result("MalformedMetadata", set)
    ELSE IF ~verifyDelegate(set.root, "timestamp", data) THEN Result("UnsignedMetadata", set)
    ELSE IF set.timestamp # NoDoc /\ data.version = set.timestamp.version
      THEN Result("EqualVersion", set)
    ELSE IF set.timestamp # NoDoc /\ data.version < set.timestamp.version
      THEN Result("BadVersion", set)
    ELSE IF set.timestamp # NoDoc
            /\ data.snapshotMeta.version < set.timestamp.snapshotMeta.version
      THEN Result("BadVersion", set)
    ELSE IF isExpired(data, referenceTime) THEN Result("ExpiredMetadata", set)
    ELSE Result("ok", [set EXCEPT !.timestamp = data])

updateSnapshotKeepsDelegated(set, data, trusted, referenceTime) ==
    IF set.timestamp = NoDoc THEN Result("RuntimeError", set)
    ELSE IF isExpired(set.timestamp, referenceTime) THEN Result("ExpiredMetadata", set)
    ELSE IF ~fromJSON("snapshot", data) THEN Result("MalformedMetadata", set)
    ELSE IF ~verifyDelegate(set.root, "snapshot", data) THEN Result("UnsignedMetadata", set)
    ELSE IF data.version # set.timestamp.snapshotMeta.version THEN Result("BadVersion", set)
    ELSE IF set.snapshot # NoDoc
            /\ \E r \in TargetsRoleNames :
                  /\ set.snapshot.meta[r] > 0
                  /\ data.meta[r] < set.snapshot.meta[r]
      THEN Result("BadVersion", set)
    ELSE IF isExpired(data, referenceTime) THEN Result("ExpiredMetadata", set)
    ELSE Result("ok", [set EXCEPT !.snapshot = data])

updateSnapshotCommitsEarly(set, data, trusted, referenceTime) ==
    IF set.timestamp = NoDoc THEN Result("RuntimeError", set)
    ELSE IF isExpired(set.timestamp, referenceTime) THEN Result("ExpiredMetadata", set)
    ELSE IF ~fromJSON("snapshot", data) THEN Result("MalformedMetadata", set)
    ELSE IF ~verifyDelegate(set.root, "snapshot", data) THEN Result("UnsignedMetadata", set)
    ELSE IF data.version # set.timestamp.snapshotMeta.version THEN Result("BadVersion", set)
    ELSE IF isExpired(data, referenceTime)
      THEN Result("ExpiredMetadata", [set EXCEPT !.snapshot = data])
    ELSE Result("ok", [set EXCEPT !.snapshot = data])

updateSnapshotForgetsListing(set, data, trusted, referenceTime) ==
    IF set.timestamp = NoDoc THEN Result("RuntimeError", set)
    ELSE IF isExpired(set.timestamp, referenceTime) THEN Result("ExpiredMetadata", set)
    ELSE IF ~fromJSON("snapshot", data) THEN Result("MalformedMetadata", set)
    ELSE IF ~verifyDelegate(set.root, "snapshot", data) THEN Result("UnsignedMetadata", set)
    ELSE IF data.version # set.timestamp.snapshotMeta.version THEN Result("BadVersion", set)
    ELSE IF isExpired(data, referenceTime) THEN Result("ExpiredMetadata", set)
    ELSE Result("ok", [set EXCEPT !.snapshot = data,
                                  !.targets = [r \in TargetsRoleNames |->
                                      IF r = "targets" THEN set.targets[r] ELSE NoDoc]])

updateSnapshotDropsTopLevel(set, data, trusted, referenceTime) ==
    IF set.timestamp = NoDoc THEN Result("RuntimeError", set)
    ELSE IF isExpired(set.timestamp, referenceTime) THEN Result("ExpiredMetadata", set)
    ELSE IF ~fromJSON("snapshot", data) THEN Result("MalformedMetadata", set)
    ELSE IF ~verifyDelegate(set.root, "snapshot", data) THEN Result("UnsignedMetadata", set)
    ELSE IF data.version # set.timestamp.snapshotMeta.version THEN Result("BadVersion", set)
    ELSE IF set.snapshot # NoDoc
            /\ \E r \in TargetsRoleNames :
                  /\ set.snapshot.meta[r] > 0
                  /\ data.meta[r] < set.snapshot.meta[r]
      THEN Result("BadVersion", set)
    ELSE IF isExpired(data, referenceTime) THEN Result("ExpiredMetadata", set)
    ELSE Result("ok", [set EXCEPT !.snapshot = data,
                                  !.targets = [r \in TargetsRoleNames |->
                                      IF r = "targets" THEN NoDoc ELSE set.targets[r]]])

updateSnapshot(set, data, trusted, referenceTime) ==
    IF set.timestamp = NoDoc THEN Result("RuntimeError", set)
    ELSE IF isExpired(set.timestamp, referenceTime) THEN Result("ExpiredMetadata", set)
    ELSE IF ~fromJSON("snapshot", data) THEN Result("MalformedMetadata", set)
    ELSE IF ~verifyDelegate(set.root, "snapshot", data) THEN Result("UnsignedMetadata", set)
    ELSE IF data.version # set.timestamp.snapshotMeta.version THEN Result("BadVersion", set)
    ELSE IF set.snapshot # NoDoc
            /\ \E r \in TargetsRoleNames :
                  /\ set.snapshot.meta[r] > 0
                  /\ data.meta[r] < set.snapshot.meta[r]
      THEN Result("BadVersion", set)
    ELSE IF isExpired(data, referenceTime) THEN Result("ExpiredMetadata", set)
    ELSE Result("ok", [set EXCEPT !.snapshot = data,
                                  !.targets = [r \in TargetsRoleNames |->
                                      IF r = "targets" THEN set.targets[r] ELSE NoDoc]])

updateDelegatedTargets(set, data, roleName, parentName, referenceTime) ==
    IF set.snapshot = NoDoc THEN Result("RuntimeError", set)
    ELSE IF isExpired(set.snapshot, referenceTime) THEN Result("ExpiredMetadata", set)
    ELSE IF roleName # "targets" /\ set.targets[parentName] = NoDoc
      THEN Result("RuntimeError", set)
    ELSE IF set.snapshot.meta[roleName] = 0 THEN Result("RepositoryError", set)
    ELSE IF ~fromJSON("targets", data) THEN Result("MalformedMetadata", set)
    ELSE IF ~verifyDelegate(IF roleName = "targets" THEN set.root
                            ELSE set.targets[parentName], roleName, data)
      THEN Result("UnsignedMetadata", set)
    ELSE IF data.version # set.snapshot.meta[roleName] THEN Result("BadVersion", set)
    ELSE IF isExpired(data, referenceTime) THEN Result("ExpiredMetadata", set)
    ELSE Result("ok", [set EXCEPT !.targets[roleName] = data])

\* ------------------------------------------------- the remote repository
\* What the mirror may answer.  The mirror is untrusted: every fetch may be
\* answered by any document below, or fail (Err).

Role(keyids, threshold) == [keyids |-> keyids, threshold |-> threshold]

RootDoc(v, e, rootRole, otherRole, s) ==
    [type |-> "root", version |-> v, expires |-> e, keys |-> Keys,
     roles |-> [r \in TopRoles |-> IF r = "root" THEN rootRole ELSE otherRole],
     sigs |-> s]

TimestampDoc(v, e, sv, s) ==
    [type |-> "timestamp", version |-> v, expires |-> e,
     snapshotMeta |-> [version |-> sv], sigs |-> s]

\* meta[r] = 0: the snapshot has no entry "<r>.json".
SnapshotDoc(v, e, m, s) ==
    [type |-> "snapshot", version |-> v, expires |-> e, meta |-> m, sigs |-> s]

TargetsDoc(v, e, t, d, s) ==
    [type |-> "targets", version |-> v, expires |-> e, targets |-> t,
     delegations |-> d, sigs |-> s]

RootRoleCfgs == {Role({"k1"}, 1), Role({"k1"}, 2)}
DocSigs == {{"k2"}, Keys}

\* Versions with the lifetimes offered for them: the documents of version
\* `short` come with every lifetime, the others outlive the clock.
Lifetimes(vs, short) ==
    {q \in vs \X Expiries : q[1] = short \/ q[2] = MaxTime + 1}

RootDocs ==
    {RootDoc(q[1], q[2], rr, orr, s) :
        q \in Lifetimes(RootVersions, 2), rr \in RootRoleCfgs,
        orr \in RootRoleCfgs, s \in DocSigs}

TimestampDocs ==
    {TimestampDoc(q[1], q[2], sv, s) :
        q \in Lifetimes(Versions, 1), sv \in Versions, s \in DocSigs}

SnapshotDocs ==
    {SnapshotDoc(q[1], q[2], [r \in TargetsRoleNames |-> IF r = "targets" THEN t ELSE 0], s) :
        q \in Lifetimes(Versions, 1), t \in 0..MaxVer, s \in DocSigs}

TopTargetsDocs ==
    {TargetsDoc(q[1], q[2], t, <<>>, s) :
        q \in Lifetimes(Versions, 1), t \in SUBSET TargetPaths, s \in DocSigs}

\* What a fetch of a document of `kind` may return: a document of that
\* kind, or (one) document of another kind.
Served(kind) ==
    CASE kind = "root" -> RootDocs \cup {TimestampDoc(1, MaxTime + 1, 1, Keys)}
      [] kind = "timestamp" -> TimestampDocs \cup {RootDoc(1, MaxTime + 1, Role({"k1"}, 1), Role({"k1"}, 1), Keys)}
      [] kind = "snapshot" -> SnapshotDocs \cup {TimestampDoc(1, MaxTime + 1, 1, Keys)}
      [] kind = "targets" ->
            TopTargetsDocs \cup {TimestampDoc(1, MaxTime + 1, 1, Keys),
                                 SnapshotDoc(1, MaxTime + 1,
                                             [r \in TargetsRoleNames |-> 1], Keys)}

\* The Root the client is installed with.
InitialRoot == RootDoc(1, MaxTime + 1, Role({"k1"}, 1), Role({"k1"}, 1), Keys)

\* ----------------------------------------------------------------- state
VARIABLES
    now,         \* the clock
    trustedSet,  \* Updater.trustedSet
    disk,        \* the metadata directory: file name -> document
    rf,          \* the running refresh(): its position and locals
    wk,          \* the running getTargetInfo()/preorderDepthFirstWalk()
    ev,          \* what the last step did (history)
    dl,          \* a running FetcherInterface.downloadBytes()
    js,          \* a metadata object being serialised and parsed again
    dt           \* a running downloadTarget() and the file it writes

vars == <<now, trustedSet, disk, rf, wk, ev, dl, js, dt>>

NoVersions == [r \in TopRoles |-> 0]

Delegation(roleName, parentRoleName) ==
    [roleName |-> roleName, parentRoleName |-> parentRoleName]

NoRoleLoaded == Delegation("none", "none")
TopTargets == Delegation("targets", "root")

\* proc did op (a store operation, a read or a fetch) with result res;
\* role is the targets role (and its parent) a loadTargets worked on, done
\* tells how the call ended when this step ended it, start the versions
\* trusted when a refresh that just returned had begun, and path the
\* target path of the walk that took the step; persistFailed tells that a
\* write of the refresh that just returned had failed.
NoEvent ==
    [proc |-> "none", op |-> "none", res |-> "none", role |-> NoRoleLoaded,
     done |-> "none", start |-> NoVersions, path |-> "",
     persistFailed |-> FALSE]
Event(proc, op, res, role, done) ==
    [NoEvent EXCEPT !.proc = proc, !.op = op, !.res = res, !.role = role,
                    !.done = done]

VersionOf(doc) == IF doc = NoDoc THEN 0 ELSE doc.version
VersionsOf(set) ==
    [r \in TopRoles |->
        CASE r = "root" -> VersionOf(set.root)
          [] r = "timestamp" -> VersionOf(set.timestamp)
          [] r = "snapshot" -> VersionOf(set.snapshot)
          [] r = "targets" -> VersionOf(set.targets["targets"])]

IdleRefresh ==
    [pc |-> "idle", awaited |-> FALSE, version |-> 0, upperBound |-> 0,
     start |-> NoVersions, rank |-> 0, persistFailed |-> FALSE]
IdleWalk ==
    [pc |-> "idle", targetPath |-> "", delegationsToVisit |-> <<>>,
     visitedRoleNames |-> {}, roleName |-> "", parentRoleName |-> "",
     maxDelegations |-> maxDelegations]

IdleDownload ==
    [pc |-> "idle", input |-> <<>>, reader |-> <<>>, maxLength |-> 0,
     numberOfBytesReceived |-> 0, chunks |-> <<>>, result |-> <<>>]

EmptyObject == [k \in {} |-> 0]

IdleJSON == [pc |-> "idle", kind |-> "none", x |-> EmptyObject,
             data |-> EmptyObject, y |-> EmptyObject]

IdleTarget ==
    [pc |-> "idle", targetInfo |-> [path |-> "", length |-> 0, hashes |-> EmptyObject],
     filePath |-> "", targetBaseUrl |-> "", targetDir |-> "", thisTargetBaseUrl |-> "",
     written |-> FALSE, file |-> <<>>, err |-> "none"]

\* Updater.constructor: the trusted set starts from the local root.json.
NewTrustedSet(data) ==
    [root |-> data, timestamp |-> NoDoc, snapshot |-> NoDoc, targets |-> NoTargets]

Init ==
    /\ now = 0
    /\ disk = [f \in TopRoles \cup DelegatedNames |-> IF f = "root" THEN InitialRoot ELSE NoDoc]
    /\ trustedSet = NewTrustedSet(InitialRoot)
    /\ rf = IdleRefresh
    /\ wk = IdleWalk
    /\ ev = NoEvent
    /\ dl = IdleDownload
    /\ js = IdleJSON
    /\ dt = IdleTarget

persistMetadataNever(d, metaDataName, bytesData, written) == d

\* Updater.persistMetadata: writes the bytes to <metaDataName>.json; when
\* writeFileSync throws (written = FALSE) the file is as it was, and the
\* promise that carries the PersistError is one no caller awaits.
persistMetadata(d, metaDataName, bytesData, written) ==
    IF written THEN [d EXCEPT ![metaDataName] = bytesData] ELSE d

\* The metadata directory takes every write.
Writable == {TRUE}
\* A write to the metadata directory may fail.
Unreliable == BOOLEAN

\* Updater.loadLocalMetadata: the file's content; NoDoc = readFileSync throws.
loadLocalMetadata(d, fileName) == d[fileName]

\* ------------------------------------------------------------- refresh()

\* Updater.loadRoot, lines 102-105: the versions the rotation loop asks for.
loadRootBounds(rootVersion) ==
    [lowerBound |-> rootVersion + 1,
     upperBound |-> (rootVersion + 1) + maxRootRotations]

refreshLoadsTimestampFirst == <<"timestamp", "root", "snapshot", "targets">>

\* Updater.refresh: the loads, in the order they are awaited.
refreshLoads == <<"root", "timestamp", "snapshot", "targets">>

\* The load that follows `stage`; "return" after the last.
NextLoad(stage) ==
    LET i == CHOOSE j \in 1..Len(refreshLoads) : refreshLoads[j] = stage
    IN IF i = Len(refreshLoads) THEN "return" ELSE refreshLoads[i + 1]

\* The refresh enters load `stage`.  loadRoot runs on to its first fetch
\* (it computes the bounds from the trusted root); the other loads start
\* with a step of their own.
Enter(r, stage) ==
    IF stage = "root"
      THEN LET b == loadRootBounds(trustedSet.root.version)
           IN [r EXCEPT !.pc = "root_fetch", !.version = b.lowerBound,
                        !.upperBound = b.upperBound]
      ELSE [r EXCEPT !.pc = stage]

Rank(op) ==
    CASE op = "updateRoot" -> 1
      [] op = "updateTimestamp" -> 2
      [] op = "updateSnapshot" -> 3
      [] op = "updateDelegatedTargets" -> 4
      [] OTHER -> 0

\* The refresh moves on after load `stage` returned, having done `op`
\* with result `res`; it returns when that was the last load.
\* `written` tells whether the write the load made, if any, succeeded: the
\* load does not await persistMetadata, so the refresh moves on either way.
RefreshGoesOn(stage, op, res, written) ==
    LET next == NextLoad(stage)
        rank == IF res = "ok" /\ Rank(op) > 0 THEN Rank(op) ELSE rf.rank
        role == IF stage = "targets" THEN TopTargets ELSE NoRoleLoaded
        failed == rf.persistFailed \/ ~written
    IN /\ rf' = IF next = "return" THEN IdleRefresh
                ELSE Enter([rf EXCEPT !.rank = rank, !.persistFailed = failed], next)
       /\ ev' = IF next = "return"
                 THEN [Event("refresh", op, res, role, "ok") EXCEPT
                         !.start = rf.start, !.persistFailed = failed]
                 ELSE Event("refresh", op, res, role, "none")

RefreshContinue(stage, op, res) == RefreshGoesOn(stage, op, res, TRUE)

\* The load threw: refresh() rejects.
RefreshThrow(op, res) ==
    /\ rf' = IdleRefresh
    /\ ev' = Event("refresh", op, res,
                   IF rf.pc \in {"targets", "targets_fetch"} THEN TopTargets
                   ELSE NoRoleLoaded,
                   "error")

\* refresh() up to its first suspension: loadRoot computes the bounds and
\* issues the first fetch.
StartRefresh(awaited) ==
    rf' = Enter([IdleRefresh EXCEPT !.awaited = awaited,
                                    !.start = VersionsOf(trustedSet)],
                refreshLoads[1])

CallerIdle == rf.pc = "idle" /\ wk.pc = "idle"

\* The caller invokes refresh().
CallRefresh ==
    /\ CallerIdle
    /\ StartRefresh(TRUE)
    /\ ev' = NoEvent
    /\ UNCHANGED <<now, trustedSet, disk, wk, dl, js, dt>>

\* loadRoot: the fetch of <version>.root.json ends.  Any error breaks the
\* loop; a committed root is persisted and the next version is asked for.
RootResponseFrom(docs, writes) ==
    /\ rf.pc = "root_fetch"
    /\ \E resp \in docs \cup {Err}, written \in writes :
         LET r == IF resp = Err THEN Result("DownloadError", trustedSet)
                  ELSE updateRoot(trustedSet, resp)
         IN /\ trustedSet' = r.set
            /\ IF r.err = "ok"
                 THEN /\ disk' = persistMetadata(disk, "root", resp, written)
                      /\ IF rf.version + 1 <= rf.upperBound
                           THEN /\ rf' = [rf EXCEPT !.version = @ + 1, !.rank = 1,
                                                    !.persistFailed = @ \/ ~written]
                                /\ ev' = Event("refresh", "updateRoot", "ok", NoRoleLoaded, "none")
                           ELSE RefreshGoesOn("root", "updateRoot", "ok", written)
                 ELSE /\ written
                      /\ disk' = disk
                      /\ RefreshContinue("root",
                            IF resp = Err THEN "fetch" ELSE "updateRoot", r.err)
    /\ UNCHANGED <<now, wk, dl, js, dt>>

RootResponse == RootResponseFrom(Served("root"), Writable)

\* loadTimestamp, lines 124-137: the local timestamp is tried (errors are
\* ignored), then timestamp.json is asked for.
TimestampStart ==
    /\ rf.pc = "timestamp"
    /\ LET data == loadLocalMetadata(disk, "timestamp")
           r == IF data = NoDoc THEN Result("ENOENT", trustedSet)
                ELSE updateTimestamp(trustedSet, data, now)
       IN /\ trustedSet' = r.set
          /\ rf' = [rf EXCEPT !.pc = "timestamp_fetch",
                              !.rank = IF r.err = "ok" THEN 2 ELSE @]
          /\ ev' = Event("refresh",
                         IF data = NoDoc THEN "read" ELSE "updateTimestamp",
                         r.err, NoRoleLoaded, "none")
    /\ UNCHANGED <<now, disk, wk, dl, js, dt>>

absorbedAlways(err) == TRUE

absorbedNever(err) == FALSE

\* loadTimestamp, lines 141-149: the error of updateTimestamp that is not
\* rethrown.
absorbed(err) == err = "EqualVersion"

\* loadTimestamp, lines 134-152: the fetch ends.
TimestampResponseFrom(docs, writes) ==
    /\ rf.pc = "timestamp_fetch"
    /\ \E resp \in docs \cup {Err}, written \in writes :
         IF resp = Err
           THEN /\ written
                /\ RefreshThrow("fetch", "DownloadError")
                /\ UNCHANGED <<trustedSet, disk>>
           ELSE LET r == updateTimestamp(trustedSet, resp, now)
                IN /\ trustedSet' = r.set
                   /\ IF r.err = "ok"
                        THEN /\ disk' = persistMetadata(disk, "timestamp", resp, written)
                             /\ RefreshGoesOn("timestamp", "updateTimestamp", "ok", written)
                        ELSE /\ written
                             /\ disk' = disk
                             /\ IF absorbed(r.err)
                                  THEN RefreshContinue("timestamp", "updateTimestamp", r.err)
                                  ELSE RefreshThrow("updateTimestamp", r.err)
    /\ UNCHANGED <<now, wk, dl, js, dt>>

TimestampResponse == TimestampResponseFrom(Served("timestamp"), Writable)

\* loadSnapshot, lines 157-175: the local snapshot is tried; when that
\* fails the remote one is asked for.
SnapshotStart ==
    /\ rf.pc = "snapshot"
    /\ LET data == loadLocalMetadata(disk, "snapshot")
           r == IF data = NoDoc THEN Result("ENOENT", trustedSet)
                ELSE updateSnapshot(trustedSet, data, TRUE, now)
           op == IF data = NoDoc THEN "read" ELSE "updateSnapshot"
       IN /\ trustedSet' = r.set
          /\ IF r.err = "ok"
               THEN RefreshContinue("snapshot", op, "ok")
               ELSE IF r.set.timestamp = NoDoc
                      THEN RefreshThrow(op, "ReferenceError")
                      ELSE /\ rf' = [rf EXCEPT !.pc = "snapshot_fetch"]
                           /\ ev' = Event("refresh", op, r.err, NoRoleLoaded, "none")
    /\ UNCHANGED <<now, disk, wk, dl, js, dt>>

\* loadSnapshot, lines 177-185: the fetch ends.
SnapshotResponseFrom(docs, writes) ==
    /\ rf.pc = "snapshot_fetch"
    /\ \E resp \in docs \cup {Err}, written \in writes :
         IF resp = Err
           THEN /\ written
                /\ RefreshThrow("fetch", "DownloadError")
                /\ UNCHANGED <<trustedSet, disk>>
           ELSE LET r == updateSnapshot(trustedSet, resp, FALSE, now)
                IN /\ trustedSet' = r.set
                   /\ IF r.err = "ok"
                        THEN /\ disk' = persistMetadata(disk, "snapshot", resp, written)
                             /\ RefreshGoesOn("snapshot", "updateSnapshot", "ok", written)
                        ELSE /\ written
                             /\ disk' = disk
                             /\ RefreshThrow("updateSnapshot", r.err)
    /\ UNCHANGED <<now, wk, dl, js, dt>>

SnapshotResponse == SnapshotResponseFrom(Served("snapshot"), Writable)

\* Updater.loadTargets up to its suspension (lines 193-219).  out is
\* "return" (cached, or the local file was accepted), "throw", or "fetch"
\* (the remote file is asked for).
loadTargetsStart(set, d, role, parentRole, referenceTime) ==
    IF getRole(set, role) # NoDoc
      THEN [out |-> "return", op |-> "getRole", err |-> "ok", set |-> set]
    ELSE LET data == loadLocalMetadata(d, role)
             r == IF data = NoDoc THEN Result("ENOENT", set)
                  ELSE updateDelegatedTargets(set, data, role, parentRole, referenceTime)
             op == IF data = NoDoc THEN "read" ELSE "updateDelegatedTargets"
         IN IF r.err = "ok"
              THEN [out |-> "return", op |-> op, err |-> "ok", set |-> r.set]
            ELSE IF r.set.snapshot = NoDoc
              THEN [out |-> "throw", op |-> op, err |-> "ReferenceError", set |-> r.set]
            ELSE IF r.set.snapshot.meta[role] = 0
              THEN [out |-> "throw", op |-> op, err |-> "TypeError", set |-> r.set]
            ELSE [out |-> "fetch", op |-> op, err |-> r.err, set |-> r.set]

\* refresh: loadTargets("targets", "root") starts.
TargetsStart ==
    /\ rf.pc = "targets"
    /\ LET l == loadTargetsStart(trustedSet, disk, "targets", "root", now)
       IN /\ trustedSet' = l.set
          /\ CASE l.out = "return" -> RefreshContinue("targets", l.op, l.err)
               [] l.out = "throw" -> RefreshThrow(l.op, l.err)
               [] l.out = "fetch" -> /\ rf' = [rf EXCEPT !.pc = "targets_fetch"]
                                     /\ ev' = Event("refresh", l.op, l.err, TopTargets, "none")
    /\ UNCHANGED <<now, disk, wk, dl, js, dt>>

\* refresh: loadTargets, lines 220-228: the fetch ends.
TargetsResponseFrom(docs, writes) ==
    /\ rf.pc = "targets_fetch"
    /\ \E resp \in docs \cup {Err}, written \in writes :
         IF resp = Err
           THEN /\ written
                /\ RefreshThrow("fetch", "DownloadError")
                /\ UNCHANGED <<trustedSet, disk>>
           ELSE LET r == updateDelegatedTargets(trustedSet, resp, "targets", "root", now)
                IN /\ trustedSet' = r.set
                   /\ IF r.err = "ok"
                        THEN /\ disk' = persistMetadata(disk, "targets", resp, written)
                             /\ RefreshGoesOn("targets", "updateDelegatedTargets", "ok", written)
                        ELSE /\ written
                             /\ disk' = disk
                             /\ RefreshThrow("updateDelegatedTargets", r.err)
    /\ UNCHANGED <<now, wk, dl, js, dt>>

TargetsResponse == TargetsResponseFrom(Served("targets"), Writable)

\* ------------------------------------- getTargetInfo() and the walk

Reverse(seq) == [i \in 1..Len(seq) |-> seq[Len(seq) + 1 - i]]

\* Delegations.rolesForTarget: the delegated roles that match the path, in
\* the order the parent declares them.
rolesForTarget(delegations, targetPath) ==
    SelectSeq(delegations, LAMBDA r : targetPath \in r.paths)

pushChildrenPastTerminating(delegationsToVisit, targets, roleName, targetPath) ==
    LET rolesFor == rolesForTarget(targets.delegations, targetPath)
    IN delegationsToVisit
         \o Reverse([i \in 1..Len(rolesFor) |-> Delegation(rolesFor[i].name, roleName)])

pushChildrenInDeclaredOrder(delegationsToVisit, targets, roleName, targetPath) ==
    LET rolesFor == rolesForTarget(targets.delegations, targetPath)
        terms == {i \in 1..Len(rolesFor) : rolesFor[i].terminating}
        last == IF terms = {} THEN Len(rolesFor)
                ELSE CHOOSE i \in terms : \A j \in terms : i <= j
    IN (IF terms = {} THEN delegationsToVisit ELSE <<>>)
         \o [i \in 1..last |-> Delegation(rolesFor[i].name, roleName)]

\* preorderDepthFirstWalk, lines 290-308: the stack after the children of
\* `roleName` that match were pushed.
pushChildren(delegationsToVisit, targets, roleName, targetPath) ==
    LET rolesFor == rolesForTarget(targets.delegations, targetPath)
        terms == {i \in 1..Len(rolesFor) : rolesFor[i].terminating}
        last == IF terms = {} THEN Len(rolesFor)
                ELSE CHOOSE i \in terms : \A j \in terms : i <= j
        childRolesToVisit ==
            [i \in 1..last |-> Delegation(rolesFor[i].name, roleName)]
    IN (IF terms = {} THEN delegationsToVisit ELSE <<>>)
         \o Reverse(childRolesToVisit)

walkConditionNoBudget(w) == Len(w.delegationsToVisit) > 0

\* preorderDepthFirstWalk, lines 261-264: the loop goes on.
walkCondition(w) ==
    /\ Cardinality(w.visitedRoleNames) <= w.maxDelegations
    /\ Len(w.delegationsToVisit) > 0

alreadyVisitedNever(visitedRoleNames, roleName) == FALSE

\* preorderDepthFirstWalk, lines 270-272: the cycle guard.
alreadyVisited(visitedRoleNames, roleName) == roleName \in visitedRoleNames

WalkEvent(w, op, res, role, done) ==
    [Event("walk", op, res, role, done) EXCEPT !.path = w.targetPath]

WalkReturn(w, op, res, role, done) ==
    /\ wk' = IdleWalk
    /\ ev' = WalkEvent(w, op, res, role, done)

\* preorderDepthFirstWalk, lines 278-308: the role's metadata is there;
\* `w` is the walk after the pop.
WalkInspect(w, set, op) ==
    LET targets == getRole(set, w.roleName)
    IN IF targets = NoDoc
         THEN /\ wk' = [w EXCEPT !.pc = "loop"]
              /\ ev' = WalkEvent(w, op, "ok", Delegation(w.roleName, w.parentRoleName), "none")
       ELSE IF w.targetPath \in targets.targets
         THEN WalkReturn(w, op, "ok", Delegation(w.roleName, w.parentRoleName), "found")
       ELSE /\ wk' = [w EXCEPT
                        !.pc = "loop",
                        !.visitedRoleNames = @ \cup {w.roleName},
                        !.delegationsToVisit =
                            pushChildren(@, targets, w.roleName, w.targetPath)]
            /\ ev' = WalkEvent(w, op, "ok", Delegation(w.roleName, w.parentRoleName), "none")

\* One turn of the loop of preorderDepthFirstWalk, up to the suspension
\* inside loadTargets (lines 261-277).
WalkTurn(w) ==
    IF ~walkCondition(w)
      THEN /\ WalkReturn(w, "none", "none", NoRoleLoaded, "nothing")
           /\ UNCHANGED trustedSet
    ELSE LET top == w.delegationsToVisit[Len(w.delegationsToVisit)]
             popped == [w EXCEPT
                          !.delegationsToVisit = SubSeq(@, 1, Len(@) - 1),
                          !.roleName = top.roleName,
                          !.parentRoleName = top.parentRoleName]
         IN IF alreadyVisited(w.visitedRoleNames, top.roleName)
              THEN /\ wk' = [popped EXCEPT !.pc = "loop"]
                   /\ ev' = WalkEvent(w, "none", "none", top, "none")
                   /\ UNCHANGED trustedSet
            ELSE LET l == loadTargetsStart(trustedSet, disk, top.roleName,
                                           top.parentRoleName, now)
                 IN /\ trustedSet' = l.set
                    /\ CASE l.out = "return" -> WalkInspect(popped, l.set, l.op)
                         [] l.out = "throw" ->
                              WalkReturn(w, l.op, l.err, top, "error")
                         [] l.out = "fetch" ->
                              /\ wk' = [popped EXCEPT !.pc = "fetch"]
                              /\ ev' = WalkEvent(w, l.op, l.err, top, "none")

\* The caller invokes getTargetInfo(targetPath): refresh() is started, not
\* awaited, when top-level targets is not trusted (lines 237-239); then the
\* walk runs its first turn.
GetTargetInfoWith(paths, config) ==
    /\ CallerIdle
    /\ \E targetPath \in paths :
         /\ IF getRole(trustedSet, "targets") = NoDoc
              THEN StartRefresh(FALSE)
              ELSE rf' = rf
         /\ WalkTurn([IdleWalk EXCEPT
                        !.targetPath = targetPath,
                        !.delegationsToVisit = <<TopTargets>>,
                        !.maxDelegations = config.maxDelegations])
    /\ UNCHANGED <<now, disk, dl, js, dt>>

GetTargetInfo == GetTargetInfoWith(TargetPaths, [maxDelegations |-> maxDelegations])

\* The walk resumes at the top of its loop.
WalkIter ==
    /\ wk.pc = "loop"
    /\ WalkTurn(wk)
    /\ UNCHANGED <<now, disk, rf, dl, js, dt>>

\* The walk's fetch of a targets role ends (loadTargets, lines 220-228).
WalkResponseFrom(docs, writes) ==
    /\ wk.pc = "fetch"
    /\ \E resp \in docs \cup {Err}, written \in writes :
         IF resp = Err
           THEN /\ written
                /\ WalkReturn(wk, "fetch", "DownloadError",
                                Delegation(wk.roleName, wk.parentRoleName), "error")
                /\ UNCHANGED <<trustedSet, disk>>
           ELSE LET r == updateDelegatedTargets(trustedSet, resp, wk.roleName,
                                                wk.parentRoleName, now)
                IN /\ trustedSet' = r.set
                   /\ IF r.err = "ok"
                        THEN /\ disk' = persistMetadata(disk, wk.roleName, resp, written)
                             /\ WalkInspect(wk, r.set, "updateDelegatedTargets")
                        ELSE /\ written
                             /\ disk' = disk
                             /\ WalkReturn(wk, "updateDelegatedTargets", r.err,
                                           Delegation(wk.roleName, wk.parentRoleName),
                                           "error")
    /\ UNCHANGED <<now, rf, dl, js, dt>>

WalkResponse == WalkResponseFrom(Served("targets"), Writable)

\* Time passes.
Tick ==
    /\ now < MaxTime
    /\ now' = now + 1
    /\ ev' = NoEvent
    /\ UNCHANGED <<trustedSet, disk, rf, wk, dl, js, dt>>

\* A new Updater is constructed on the same metadata directory.
NewUpdater ==
    /\ CallerIdle
    /\ trustedSet' = NewTrustedSet(loadLocalMetadata(disk, "root"))
    /\ ev' = NoEvent
    /\ UNCHANGED <<now, disk, rf, wk, dl, js, dt>>

Next ==
    \/ CallRefresh
    \/ RootResponse
    \/ TimestampStart
    \/ TimestampResponse
    \/ SnapshotStart
    \/ SnapshotResponse
    \/ TargetsStart
    \/ TargetsResponse
    \/ GetTargetInfo
    \/ WalkIter
    \/ WalkResponse
    \/ Tick
    \/ NewUpdater

Spec == Init /\ [][Next]_vars

\* --------------------------------------------- the walk over delegations
\* A refreshed Updater whose repository delegates: the targets roles are
\* drawn from every delegation list over the role names (the top-level
\* "targets" among them), so the graph may hold cycles and roles reached
\* through several parents.

DelegatedRole(name, terminating, paths) ==
    [name |-> name, keyids |-> {"k1"}, threshold |-> 1,
     terminating |-> terminating, paths |-> paths]

DelegatedRoles ==
    {DelegatedRole(n, t, ps) :
        n \in TargetsRoleNames, t \in BOOLEAN, ps \in SUBSET TargetPaths}

\* The delegation lists: no role is named twice by one parent.
DelegationSeqs ==
    {<<>>} \cup {<<a>> : a \in DelegatedRoles}
           \cup {<<q[1], q[2]>> :
                    q \in {x \in DelegatedRoles \X DelegatedRoles :
                             x[1].name # x[2].name}}

GraphDocs ==
    {TargetsDoc(1, MaxTime + 1, {}, d, Keys) : d \in DelegationSeqs}
      \cup {TargetsDoc(1, MaxTime + 1, TargetPaths, <<>>, Keys)}

WalkedTimestamp == TimestampDoc(1, MaxTime + 1, 1, Keys)
WalkedSnapshot ==
    SnapshotDoc(1, MaxTime + 1, [r \in TargetsRoleNames |-> 1], Keys)

InitWalk ==
    /\ now = 0
    /\ \E g \in GraphDocs :
         /\ trustedSet = [root |-> InitialRoot, timestamp |-> WalkedTimestamp,
                          snapshot |-> WalkedSnapshot,
                          targets |-> [r \in TargetsRoleNames |->
                                         IF r = "targets" THEN g ELSE NoDoc]]
         /\ disk = [f \in TopRoles \cup DelegatedNames |->
                      CASE f = "root" -> InitialRoot
                        [] f = "timestamp" -> WalkedTimestamp
                        [] f = "snapshot" -> WalkedSnapshot
                        [] f = "targets" -> g
                        [] OTHER -> NoDoc]
    /\ rf = IdleRefresh
    /\ wk = IdleWalk
    /\ ev = NoEvent
    /\ dl = IdleDownload
    /\ js = IdleJSON
    /\ dt = IdleTarget

WalkGraphResponse == WalkResponseFrom(GraphDocs, Writable)

NextWalk ==
    \/ GetTargetInfo
    \/ WalkIter
    \/ WalkGraphResponse

SpecWalk == InitWalk /\ [][NextWalk]_vars

\* The walk is scheduled (its continuations run) and every fetch ends
\* (config.fetchTimeout).
FairWalk == SpecWalk /\ WF_vars(WalkIter) /\ WF_vars(WalkGraphResponse)

\* ------------------------------------------- a role with two parents
\* A refreshed Updater, configured with a budget of DeepDelegations, on a
\* repository where top-level targets delegates path p to role B and path
\* q to role A, and A delegates q to B.  The two parents declare keys for B
\* independently.

DeepDelegations == 2

LookupPaths == {"p", "q"}

KeyedDelegatedRole(name, keyids, paths) ==
    [name |-> name, keyids |-> keyids, threshold |-> 1,
     terminating |-> FALSE, paths |-> paths]

ParentsTop(keyids) ==
    TargetsDoc(1, MaxTime + 1, {},
               <<KeyedDelegatedRole("B", keyids, {"p"}),
                 KeyedDelegatedRole("A", {"k1"}, {"q"})>>, Keys)

ParentsDocs ==
    {TargetsDoc(1, MaxTime + 1, {}, <<KeyedDelegatedRole("B", ks, {"q"})>>, Keys) :
        ks \in {{"k1"}, {"k2"}}}
      \cup {TargetsDoc(1, MaxTime + 1, t, <<>>, s) :
              t \in SUBSET LookupPaths, s \in {{"k1"}, {"k2"}, Keys}}

InitParents ==
    /\ now = 0
    /\ \E g \in {ParentsTop({"k1"}), ParentsTop({"k2"})} :
         /\ trustedSet = [root |-> InitialRoot, timestamp |-> WalkedTimestamp,
                          snapshot |-> WalkedSnapshot,
                          targets |-> [r \in TargetsRoleNames |->
                                         IF r = "targets" THEN g ELSE NoDoc]]
         /\ disk = [f \in TopRoles \cup DelegatedNames |->
                      CASE f = "root" -> InitialRoot
                        [] f = "timestamp" -> WalkedTimestamp
                        [] f = "snapshot" -> WalkedSnapshot
                        [] f = "targets" -> g
                        [] OTHER -> NoDoc]
    /\ rf = IdleRefresh
    /\ wk = IdleWalk
    /\ ev = NoEvent
    /\ dl = IdleDownload
    /\ js = IdleJSON
    /\ dt = IdleTarget

GetTargetInfoDeep ==
    GetTargetInfoWith(LookupPaths, [maxDelegations |-> DeepDelegations])

WalkParentsResponse == WalkResponseFrom(ParentsDocs, Writable)

NextParents ==
    \/ GetTargetInfoDeep
    \/ WalkIter
    \/ WalkParentsResponse

SpecParents == InitParents /\ [][NextParents]_vars

\* ------------------------------------------- refreshes and cached roles
\* An Updater on a repository whose top-level targets delegates to role A:
\* refreshes and lookups follow each other while the repository moves from
\* version 1 to version 2, on a metadata directory whose writes may fail.

CachedTimestamps == {TimestampDoc(v, MaxTime + 1, v, Keys) : v \in Versions}

CachedSnapshots ==
    {SnapshotDoc(v, MaxTime + 1,
                 [r \in TargetsRoleNames |->
                    CASE r = "targets" -> 1 [] r = "A" -> a [] OTHER -> 0],
                 Keys) :
        v \in Versions, a \in Versions}

CachedTargets ==
    {TargetsDoc(1, MaxTime + 1, {}, <<DelegatedRole("A", FALSE, TargetPaths)>>, Keys)}
      \cup {TargetsDoc(v, MaxTime + 1, t, <<>>, Keys) :
              v \in Versions, t \in SUBSET TargetPaths}

RootCachedResponse == RootResponseFrom({}, Unreliable)
TimestampCachedResponse == TimestampResponseFrom(CachedTimestamps, Unreliable)
SnapshotCachedResponse == SnapshotResponseFrom(CachedSnapshots, Unreliable)
TargetsCachedResponse == TargetsResponseFrom(CachedTargets, Unreliable)
WalkCachedResponse == WalkResponseFrom(CachedTargets, Unreliable)

NextCache ==
    \/ CallRefresh
    \/ RootCachedResponse
    \/ TimestampStart
    \/ TimestampCachedResponse
    \/ SnapshotStart
    \/ SnapshotCachedResponse
    \/ TargetsStart
    \/ TargetsCachedResponse
    \/ GetTargetInfo
    \/ WalkIter
    \/ WalkCachedResponse

SpecCache == Init /\ [][NextCache]_vars

\* ------------------------------------------------------- downloadBytes()

Bytes == {"a", "b"}

SeqsUpTo(S, n) == UNION {[1..k -> S] : k \in 0..n}

Chunks == SeqsUpTo(Bytes, MaxChunkLen)
Streams == SeqsUpTo(Chunks, MaxChunks)

RECURSIVE concat(_)
\* Buffer.concat
concat(chunks) ==
    IF chunks = <<>> THEN <<>> ELSE Head(chunks) \o concat(Tail(chunks))

exceedsOrReaches(numberOfBytesReceived, maxLength) ==
    numberOfBytesReceived >= maxLength

\* downloadBytes, line 14: the chunk just counted exceeds the limit.
exceeds(numberOfBytesReceived, maxLength) == numberOfBytesReceived > maxLength

InitFetch ==
    /\ now = 0
    /\ disk = [f \in TopRoles \cup DelegatedNames |-> IF f = "root" THEN InitialRoot ELSE NoDoc]
    /\ trustedSet = NewTrustedSet(InitialRoot)
    /\ rf = IdleRefresh
    /\ wk = IdleWalk
    /\ ev = NoEvent
    /\ \E stream \in Streams, maxLength \in 0..MaxLength :
         dl = [IdleDownload EXCEPT !.pc = "called", !.input = stream,
                                   !.maxLength = maxLength]
    /\ js = IdleJSON
    /\ dt = IdleTarget

\* downloadBytes, line 5: fetch(url) gives the stream.
DownloadStart ==
    /\ dl.pc = "called"
    /\ dl' = [dl EXCEPT !.pc = "reading", !.reader = dl.input]
    /\ UNCHANGED <<now, trustedSet, disk, rf, wk, ev, js, dt>>

\* downloadBytes, lines 10-19: one chunk arrives.
DownloadChunk ==
    /\ dl.pc = "reading"
    /\ dl.reader # <<>>
    /\ LET bufferChunk == Head(dl.reader)
           n == dl.numberOfBytesReceived + Len(bufferChunk)
       IN dl' = IF exceeds(n, dl.maxLength)
                  THEN [dl EXCEPT !.pc = "thrown", !.numberOfBytesReceived = n,
                                  !.reader = Tail(@)]
                  ELSE [dl EXCEPT !.numberOfBytesReceived = n,
                                  !.reader = Tail(@),
                                  !.chunks = Append(@, bufferChunk)]
    /\ UNCHANGED <<now, trustedSet, disk, rf, wk, ev, js, dt>>

\* downloadBytes, line 22: the stream ended.
DownloadEnd ==
    /\ dl.pc = "reading"
    /\ dl.reader = <<>>
    /\ dl' = [dl EXCEPT !.pc = "returned", !.result = concat(dl.chunks)]
    /\ UNCHANGED <<now, trustedSet, disk, rf, wk, ev, js, dt>>

NextFetch ==
    \/ DownloadStart
    \/ DownloadChunk
    \/ DownloadEnd

SpecFetch == InitFetch /\ [][NextFetch]_vars

\* ------------------------------------------------------- downloadTarget()
\* A TargetFile and the bytes served for it.  The digest of some bytes under
\* an algorithm is the pair of the two.  The target URL only selects what
\* the repository serves, which is any stream.

MaxTargetLength == 2

Algorithms == {"sha256", "sha512"}

Contents == {<<>>, <<"a">>, <<"a", "b">>}

digest(algorithm, bytes) == <<algorithm, bytes>>

TargetFiles ==
    {[path |-> "p", length |-> n, hashes |-> h] :
        n \in 1..MaxTargetLength,
        h \in UNION {[A -> Contents] : A \in {{"sha256"}, Algorithms}}}

\* TargetFile.verify: the length and every declared hash.
verifyLengthOnly(targetInfo, bytes) == Len(bytes) = targetInfo.length

verify(targetInfo, bytes) ==
    /\ Len(bytes) = targetInfo.length
    /\ \A a \in DOMAIN targetInfo.hashes :
          digest(a, targetInfo.hashes[a]) = digest(a, bytes)

InitTarget ==
    /\ now = 0
    /\ disk = [f \in TopRoles \cup DelegatedNames |-> IF f = "root" THEN InitialRoot ELSE NoDoc]
    /\ trustedSet = NewTrustedSet(InitialRoot)
    /\ rf = IdleRefresh
    /\ wk = IdleWalk
    /\ ev = NoEvent
    /\ dl = IdleDownload
    /\ js = IdleJSON
    /\ \E targetInfo \in TargetFiles, filePath \in {"", "out"},
          targetBaseUrl \in {"", "url"}, targetDir \in {"", "dir"},
          thisTargetBaseUrl \in {"", "url"} :
         dt = [IdleTarget EXCEPT !.pc = "called", !.targetInfo = targetInfo,
                                 !.filePath = filePath,
                                 !.targetBaseUrl = targetBaseUrl,
                                 !.targetDir = targetDir,
                                 !.thisTargetBaseUrl = thisTargetBaseUrl]

\* downloadTarget, lines 341-362: the file path and the base URL are
\* settled, then downloadBytes(url, targetInfo.length) is called.
DownloadTargetCall ==
    /\ dt.pc = "called"
    /\ IF dt.filePath = "" /\ dt.targetDir = ""
         THEN /\ dt' = [dt EXCEPT !.pc = "thrown", !.err = "ValueError"]
              /\ dl' = dl
       ELSE IF dt.targetBaseUrl = "" /\ dt.thisTargetBaseUrl = ""
         THEN /\ dt' = [dt EXCEPT !.pc = "thrown", !.err = "ValueError"]
              /\ dl' = dl
       ELSE /\ dt' = [dt EXCEPT
                        !.pc = "fetching",
                        !.filePath = IF @ = "" THEN dt.targetDir ELSE @,
                        !.targetBaseUrl = IF @ = "" THEN dt.thisTargetBaseUrl ELSE @]
            /\ \E stream \in Streams :
                 dl' = [IdleDownload EXCEPT !.pc = "called", !.input = stream,
                                            !.maxLength = dt.targetInfo.length]
    /\ UNCHANGED <<now, trustedSet, disk, rf, wk, ev, js>>

\* downloadBytes, line 5: fetch(url) rejects.
DownloadFails ==
    /\ dt.pc = "fetching"
    /\ dl.pc = "called"
    /\ dl' = [dl EXCEPT !.pc = "thrown"]
    /\ UNCHANGED <<now, trustedSet, disk, rf, wk, ev, js, dt>>

\* downloadTarget, lines 364-368, writing first: the bytes are written,
\* then verified.
downloadTargetWritesFirst(t, targetFile) ==
    IF ~verify(t.targetInfo, targetFile)
      THEN [t EXCEPT !.pc = "thrown", !.err = "LengthOrHashMismatch",
                     !.written = TRUE, !.file = targetFile]
      ELSE [t EXCEPT !.pc = "returned", !.written = TRUE, !.file = targetFile]

\* downloadTarget, lines 364-368: the bytes are verified, then written to
\* filePath.
downloadTargetEnd(t, targetFile) ==
    IF ~verify(t.targetInfo, targetFile)
      THEN [t EXCEPT !.pc = "thrown", !.err = "LengthOrHashMismatch"]
      ELSE [t EXCEPT !.pc = "returned", !.written = TRUE, !.file = targetFile]

\* downloadTarget resumes when downloadBytes has returned or thrown.
DownloadTargetResume ==
    /\ dt.pc = "fetching"
    /\ dl.pc \in {"returned", "thrown"}
    /\ dt' = IF dl.pc = "thrown"
               THEN [dt EXCEPT !.pc = "thrown", !.err = "DownloadError"]
               ELSE downloadTargetEnd(dt, dl.result)
    /\ UNCHANGED <<now, trustedSet, disk, rf, wk, ev, dl, js>>

NextTarget ==
    \/ DownloadTargetCall
    \/ DownloadStart
    \/ DownloadFails
    \/ DownloadChunk
    \/ DownloadEnd
    \/ DownloadTargetResume

SpecTarget == InitTarget /\ [][NextTarget]_vars

\* ------------------------------------------------- toJSON() and fromJSON()
\* The metadata classes, as objects (functions from field names), and their
\* JSON forms (functions from member names).  A member or option that is
\* undefined is absent from the domain.  spec_version is the list of its
\* dotted components; expires is a point of the clock.

\* { ...f, ...g }
Spread(f, g) ==
    [k \in DOMAIN f \cup DOMAIN g |-> IF k \in DOMAIN g THEN g[k] ELSE f[k]]

\* const { names, ...rest } = f
Rest(f, names) == [k \in DOMAIN f \ names |-> f[k]]

\* options[name] || default, for a string, a list or an object
OrElse(options, name, default) ==
    IF name \in DOMAIN options THEN options[name] ELSE default

Thrown == [thrown |-> TRUE]

SPECIFICATION_VERSION == <<1, 20, 30>>

\* Signed.constructor; date is new Date().
newSigned(options, date) ==
    LET specVersion == OrElse(options, "specVersion", SPECIFICATION_VERSION)
    IN IF ~(Len(specVersion) \in {2, 3}) \/ specVersion[1] # SPECIFICATION_VERSION[1]
         THEN Thrown
         ELSE [specVersion |-> specVersion,
               expires |-> OrElse(options, "expires", date),
               version |-> IF "version" \in DOMAIN options /\ options.version # 0
                             THEN options.version ELSE 1,
               unrecognizedFields |-> OrElse(options, "unrecognizedFields", EmptyObject)]

\* Signed.equals
equalsSigned(this, other) ==
    /\ this.specVersion = other.specVersion
    /\ this.expires = other.expires
    /\ this.version = other.version
    /\ this.unrecognizedFields = other.unrecognizedFields

\* Signed.commonFieldsFromJSON: the options, the undefined ones left out.
commonFieldsFromJSON(data) ==
    LET member == [specVersion |-> "spec_version", expires |-> "expires",
                   version |-> "version"]
        defined == {o \in DOMAIN member : member[o] \in DOMAIN data}
    IN Spread([o \in defined |-> data[member[o]]],
              [unrecognizedFields |-> Rest(data, {"spec_version", "expires", "version"})])

\* Key.constructor
newKey(options) ==
    [keyID |-> options.keyID, keyType |-> options.keyType,
     scheme |-> options.scheme, keyVal |-> options.keyVal,
     unrecognizedFields |-> OrElse(options, "unrecognizedFields", EmptyObject)]

\* Key.equals
equalsKey(this, other) ==
    /\ this.keyID = other.keyID
    /\ this.keyType = other.keyType
    /\ this.scheme = other.scheme
    /\ this.keyVal = other.keyVal
    /\ this.unrecognizedFields = other.unrecognizedFields

\* Key.fromJSON(keyID, keyData)
KeyFromJSON(keyID, keyData) ==
    newKey([keyID |-> keyID, keyType |-> keyData.keytype,
            scheme |-> keyData.scheme, keyVal |-> keyData.keyval,
            unrecognizedFields |-> Rest(keyData, {"keytype", "scheme", "keyval"})])

\* Key.toJSON: { [keyID]: { keytype, scheme, keyval, ...unrecognizedFields } }
KeyToJSON(this) ==
    [id \in {this.keyID} |->
        Spread([keytype |-> this.keyType, scheme |-> this.scheme,
                keyval |-> this.keyVal],
               this.unrecognizedFields)]

hasDuplicates(array) == Cardinality({array[i] : i \in DOMAIN array}) # Len(array)

\* Role.constructor
newRole(options) ==
    IF hasDuplicates(options.keyIDs) \/ options.threshold < 1 THEN Thrown
    ELSE [keyIDs |-> options.keyIDs, threshold |-> options.threshold,
          unrecognizedFields |-> OrElse(options, "unrecognizedFields", EmptyObject)]

\* Role.equals
equalsRole(this, other) ==
    /\ this.threshold = other.threshold
    /\ this.keyIDs = other.keyIDs
    /\ this.unrecognizedFields = other.unrecognizedFields

\* Role.fromJSON
RoleFromJSON(data) ==
    IF "keyids" \notin DOMAIN data THEN Thrown
    ELSE IF "threshold" \notin DOMAIN data \/ data.threshold = 0 THEN Thrown
    ELSE newRole([keyIDs |-> data.keyids, threshold |-> data.threshold,
                  unrecognizedFields |-> Rest(data, {"keyids", "threshold"})])

\* Role.toJSON
RoleToJSON(this) ==
    Spread([keyids |-> this.keyIDs, threshold |-> this.threshold],
           this.unrecognizedFields)

\* Root.constructor
newRoot(options, date) ==
    LET signed == newSigned(options, date)
    IN IF signed = Thrown THEN Thrown
       ELSE Spread(signed,
                   [keys |-> OrElse(options, "keys", EmptyObject),
                    roles |-> OrElse(options, "roles", EmptyObject),
                    consistentSnapshot |-> OrElse(options, "consistentSnapshot", FALSE)])

\* Root.fromJSON
RootFromJSON(data, date) ==
    LET common == commonFieldsFromJSON(data)
        fields == common.unrecognizedFields
    IN IF ~({"keys", "roles"} \subseteq DOMAIN fields) THEN Thrown
       ELSE LET keyMap == [keyID \in DOMAIN fields.keys |->
                               KeyFromJSON(keyID, fields.keys[keyID])]
                roleMap == [roleName \in DOMAIN fields.roles |->
                               RoleFromJSON(fields.roles[roleName])]
                given == IF "consistent_snapshot" \in DOMAIN fields
                           THEN [consistentSnapshot |-> fields.consistent_snapshot]
                           ELSE EmptyObject
            IN IF \E roleName \in DOMAIN roleMap : roleMap[roleName] = Thrown
                 THEN Thrown
                 ELSE newRoot(
                        Spread(Spread(common, given),
                               [keys |-> keyMap, roles |-> roleMap,
                                unrecognizedFields |->
                                    Rest(fields, {"keys", "roles", "consistent_snapshot"})]),
                        date)

\* Root.toJSON
RootToJSON(this) ==
    LET ids == {this.keys[k].keyID : k \in DOMAIN this.keys}
        keyOf(id) == CHOOSE k \in DOMAIN this.keys : this.keys[k].keyID = id
    IN Spread([keys |-> [id \in ids |-> KeyToJSON(this.keys[keyOf(id)])[id]],
               roles |-> [r \in DOMAIN this.roles |-> RoleToJSON(this.roles[r])],
               consistent_snapshot |-> this.consistentSnapshot,
               spec_version |-> this.specVersion,
               version |-> this.version,
               expires |-> this.expires],
              this.unrecognizedFields)

\* MetaFile, with its version only.
newMetaFile(version) == [version |-> version]
MetaFileFromJSON(data) == newMetaFile(data.version)
MetaFileToJSON(this) == [version |-> this.version]

\* Snapshot.constructor
newSnapshot(options, date) ==
    LET signed == newSigned(options, date)
    IN IF signed = Thrown THEN Thrown
       ELSE Spread(signed,
                   [meta |-> OrElse(options, "meta",
                                    [path \in {"targets.json"} |-> newMetaFile(1)])])

\* Snapshot.equals
equalsSnapshot(this, other) == equalsSigned(this, other) /\ this.meta = other.meta

metaToJSON(meta) == [path \in DOMAIN meta |-> MetaFileToJSON(meta[path])]
metaFromJSON(data) == [path \in DOMAIN data |-> MetaFileFromJSON(data[path])]

\* Snapshot.fromJSON
SnapshotFromJSON(data, date) ==
    LET common == commonFieldsFromJSON(data)
        fields == common.unrecognizedFields
        given == IF "meta" \in DOMAIN fields
                   THEN [meta |-> metaFromJSON(fields.meta)] ELSE EmptyObject
    IN newSnapshot(Spread(Spread(common, given),
                          [unrecognizedFields |-> Rest(fields, {"meta"})]),
                   date)

\* Snapshot.toJSON
SnapshotToJSON(this) ==
    Spread([meta |-> metaToJSON(this.meta),
            spec_version |-> this.specVersion,
            version |-> this.version,
            expires |-> this.expires],
           this.unrecognizedFields)

\* Targets.constructor
newTargets(options, date) == newSigned(options, date)

\* Targets.fromJSON: return new Targets({})
TargetsFromJSON(data, date) == newTargets(EmptyObject, date)

\* Targets.toJSON: return {}
TargetsToJSON(this) == EmptyObject

Kinds == {"Key", "Role", "Root", "Snapshot", "Targets"}

toJSON(kind, this) ==
    CASE kind = "Key" -> KeyToJSON(this)
      [] kind = "Role" -> RoleToJSON(this)
      [] kind = "Root" -> RootToJSON(this)
      [] kind = "Snapshot" -> SnapshotToJSON(this)
      [] kind = "Targets" -> TargetsToJSON(this)

\* The parse that undoes toJSON; a Key is parsed from the member that holds
\* it, as Root.fromJSON does.
parse(kind, this, data, date) ==
    CASE kind = "Key" -> KeyFromJSON(this.keyID, data[this.keyID])
      [] kind = "Role" -> RoleFromJSON(data)
      [] kind = "Root" -> RootFromJSON(data, date)
      [] kind = "Snapshot" -> SnapshotFromJSON(data, date)
      [] kind = "Targets" -> TargetsFromJSON(data, date)

equals(kind, this, other) ==
    /\ other # Thrown
    /\ CASE kind = "Key" -> equalsKey(this, other)
         [] kind = "Role" -> equalsRole(this, other)
         [] kind = "Snapshot" -> equalsSnapshot(this, other)
         [] OTHER -> equalsSigned(this, other)

\* The objects serialised: built by the constructors from these options.
Bags == {EmptyObject, [custom |-> "v"], [custom |-> "v", _type |-> "t"]}

SignedOptions ==
    {[specVersion |-> sv, expires |-> e, version |-> v, unrecognizedFields |-> u] :
        sv \in {<<1, 0>>, SPECIFICATION_VERSION}, e \in Expiries, v \in Versions,
        u \in Bags}

KeyObjects ==
    {newKey([keyID |-> id, keyType |-> "ed25519", scheme |-> "ed25519",
             keyVal |-> [public |-> id], unrecognizedFields |-> u]) :
        id \in Keys, u \in Bags}

RoleObjects ==
    {newRole([keyIDs |-> ids, threshold |-> t, unrecognizedFields |-> u]) :
        ids \in {<<>>, <<"k1">>, <<"k1", "k2">>}, t \in 1..2, u \in Bags}

KeyMaps == {[id \in S |-> newKey([keyID |-> id, keyType |-> "ed25519",
                                  scheme |-> "ed25519", keyVal |-> [public |-> id]])] :
              S \in SUBSET Keys}

RoleMaps ==
    {EmptyObject} \cup
    {[r \in {"root"} |-> newRole([keyIDs |-> <<"k1">>, threshold |-> 1,
                                  unrecognizedFields |-> u])] : u \in Bags}

RootObjects ==
    {newRoot(Spread(o, [keys |-> k, roles |-> r, consistentSnapshot |-> c]), 0) :
        o \in SignedOptions, k \in KeyMaps, r \in RoleMaps, c \in BOOLEAN}

MetaMaps ==
    {[path \in S |-> newMetaFile(v)] : S \in SUBSET {"targets.json", "A.json"},
                                        v \in Versions}

SnapshotObjects ==
    {newSnapshot(Spread(o, [meta |-> m]), 0) : o \in SignedOptions, m \in MetaMaps}

TargetsObjects == {newTargets(o, 0) : o \in SignedOptions}

Objects(kind) ==
    CASE kind = "Key" -> KeyObjects
      [] kind = "Role" -> RoleObjects
      [] kind = "Root" -> RootObjects
      [] kind = "Snapshot" -> SnapshotObjects
      [] kind = "Targets" -> TargetsObjects

InitJSON ==
    /\ now = 0
    /\ disk = [f \in TopRoles \cup DelegatedNames |-> IF f = "root" THEN InitialRoot ELSE NoDoc]
    /\ trustedSet = NewTrustedSet(InitialRoot)
    /\ rf = IdleRefresh
    /\ wk = IdleWalk
    /\ ev = NoEvent
    /\ dl = IdleDownload
    /\ dt = IdleTarget
    /\ \E kind \in Kinds : \E x \in Objects(kind) :
         js = [IdleJSON EXCEPT !.pc = "object", !.kind = kind, !.x = x]

\* x.toJSON()
Serialize ==
    /\ js.pc = "object"
    /\ js' = [js EXCEPT !.pc = "json", !.data = toJSON(js.kind, js.x)]
    /\ UNCHANGED <<now, trustedSet, disk, rf, wk, ev, dl, dt>>

\* fromJSON(data)
Parse ==
    /\ js.pc = "json"
    /\ js' = [js EXCEPT !.pc = "parsed", !.y = parse(js.kind, js.x, js.data, now)]
    /\ UNCHANGED <<now, trustedSet, disk, rf, wk, ev, dl, dt>>

NextJSON ==
    \/ Serialize
    \/ Parse
    \/ Tick

SpecJSON == InitJSON /\ [][NextJSON]_vars

\* ------------------------------------------------------ Root documents
\* The signed part of root.json as it arrives: any key map, and a root role
\* with any keyid list (with a repeated keyid, or a keyid of no key) and any
\* threshold (0 included).

RoleDocuments ==
    {[keyids |-> ids, threshold |-> t] :
        ids \in {<<>>, <<"k1">>, <<"k1", "k1">>, <<"k1", "k2">>}, t \in 0..2}

KeyDocuments ==
    {[id \in S |-> [keytype |-> "ed25519", scheme |-> "ed25519",
                    keyval |-> [public |-> id]]] : S \in SUBSET Keys}

RootDocuments ==
    {[keys |-> k, roles |-> [r \in {"root"} |-> role],
      consistent_snapshot |-> FALSE, spec_version |-> SPECIFICATION_VERSION,
      version |-> v, expires |-> MaxTime + 1] :
        k \in KeyDocuments, role \in RoleDocuments, v \in Versions}

InitParse ==
    /\ now = 0
    /\ disk = [f \in TopRoles \cup DelegatedNames |-> IF f = "root" THEN InitialRoot ELSE NoDoc]
    /\ trustedSet = NewTrustedSet(InitialRoot)
    /\ rf = IdleRefresh
    /\ wk = IdleWalk
    /\ ev = NoEvent
    /\ dl = IdleDownload
    /\ dt = IdleTarget
    /\ \E data \in RootDocuments :
         js = [IdleJSON EXCEPT !.pc = "json", !.kind = "Root", !.data = data]

NextParse ==
    \/ Parse
    \/ Tick

SpecParse == InitParse /\ [][NextParse]_vars

\* ------------------------------------------------- roles of several keys
\* A specification of the refresh up to the timestamp, with roles that list
\* one or two keys and documents signed by any set of keys.

KeyedRoles == {Role(ks, t) : ks \in (SUBSET Keys) \ {{}}, t \in 1..2}

KeyedRoots(v) ==
    {RootDoc(v, MaxTime + 1, rr, orr, s) :
        rr \in {Role({"k1"}, 1), Role(Keys, 1)}, orr \in KeyedRoles,
        s \in SUBSET Keys}

KeyedTimestamps ==
    {TimestampDoc(v, MaxTime + 1, 1, s) : v \in Versions, s \in SUBSET Keys}

InitVerify ==
    /\ now = 0
    /\ \E root \in KeyedRoots(1) :
         /\ verifyDelegate(root, "root", root)
         /\ disk = [f \in TopRoles \cup DelegatedNames |->
                       IF f = "root" THEN root ELSE NoDoc]
         /\ trustedSet = NewTrustedSet(root)
    /\ rf = IdleRefresh
    /\ wk = IdleWalk
    /\ ev = NoEvent
    /\ dl = IdleDownload
    /\ js = IdleJSON
    /\ dt = IdleTarget

RootKeyedResponse == RootResponseFrom(KeyedRoots(2), Writable)

TimestampKeyedResponse == TimestampResponseFrom(KeyedTimestamps, Writable)

\* snapshot.json is not served.
SnapshotMissingResponse == SnapshotResponseFrom({}, Writable)

NextVerify ==
    \/ CallRefresh
    \/ RootKeyedResponse
    \/ TimestampStart
    \/ TimestampKeyedResponse
    \/ SnapshotStart
    \/ SnapshotMissingResponse

SpecVerify == InitVerify /\ [][NextVerify]_vars

\* ------------------------------------------------------------ properties

UpdateOps ==
    {"updateRoot", "updateTimestamp", "updateSnapshot", "updateDelegatedTargets"}

Committed(e, op) == e.op = op /\ e.res = "ok"

\* The role has at least `threshold` keyids whose signature on doc is valid.
MeetsThreshold(role, doc) ==
    Cardinality({k \in role.keyids : k \in doc.sigs}) >= role.threshold

\* The role the authority of a targets role declares for it.
AuthorityRole(set, delegation) ==
    IF delegation.parentRoleName = "root"
      THEN set.root.roles[delegation.roleName]
      ELSE TargetsDelegate(set.targets[delegation.parentRoleName],
                           delegation.roleName).role

\* C1: when a refresh() returns normally, every role that was trusted when
\* it began and is trusted now has a version greater than or equal to the
\* one it had when the refresh began.
RefreshMonotonic ==
    (ev.proc = "refresh" /\ ev.done = "ok") =>
        \A r \in TopRoles :
            (ev.start[r] > 0 /\ VersionsOf(trustedSet)[r] > 0) =>
                VersionsOf(trustedSet)[r] >= ev.start[r]

\* A refresh that began with timestamp 1 trusted returned with timestamp 2.
RefreshRaisedTimestamp ==
    /\ ev.proc = "refresh" /\ ev.done = "ok"
    /\ ev.start["timestamp"] = 1
    /\ trustedSet.timestamp.version = 2

\* C2: while a refresh runs, the trusted Root version is at most
\* maxRootRotations above the version the refresh began with.
RootRotationBounded ==
    rf.pc # "idle" =>
        trustedSet.root.version <= rf.start["root"] + maxRootRotations

NoExpiredCommit ==
    /\ Committed(ev, "updateTimestamp") =>
         now < trustedSet.timestamp.expires /\ now < trustedSet.root.expires
    /\ Committed(ev, "updateSnapshot") =>
         now < trustedSet.snapshot.expires /\ now < trustedSet.timestamp.expires
    /\ Committed(ev, "updateDelegatedTargets") =>
         /\ now < trustedSet.targets[ev.role.roleName].expires
         /\ now < trustedSet.snapshot.expires

\* A Snapshot was committed after time had passed.
SnapshotCommittedLate ==
    /\ Committed(ev, "updateSnapshot")
    /\ now = MaxTime

\* C5: a step in which an update operation of the trusted set fails leaves
\* the trusted set as it was.
AtomicUpdates ==
    [][(ev'.op \in UpdateOps /\ ev'.res # "ok") => trustedSet' = trustedSet]_vars

\* An update of the snapshot failed on a set that trusts a snapshot.
SnapshotUpdateFailed ==
    /\ ev.op = "updateSnapshot"
    /\ ev.res = "ExpiredMetadata"
    /\ trustedSet.timestamp # NoDoc

\* C6: a walk that has begun ends, whatever the delegation graph: it
\* returns the target, returns nothing, or rejects with the error of a
\* load.
WalkTerminates ==
    (wk.pc # "idle") ~> (ev.proc = "walk" /\ ev.done \in {"found", "nothing", "error"})

\* The walk meets a role it has visited already: the graph has a cycle or
\* a role with two parents.
WalkMeetsVisitedRole ==
    /\ wk.pc = "loop"
    /\ Len(wk.delegationsToVisit) > 0
    /\ wk.delegationsToVisit[Len(wk.delegationsToVisit)].roleName
         \in wk.visitedRoleNames

\* C7: the visited set of a walk never holds more than maxDelegations + 1
\* roles.
VisitedWithinBudgetPlusOne ==
    Cardinality(wk.visitedRoleNames) <= maxDelegations + 1

\* C7, as stated: the visited set never holds more than maxDelegations
\* roles.
VisitedWithinBudget ==
    Cardinality(wk.visitedRoleNames) <= maxDelegations

\* The budget stops the walk in front of a role it has not visited.
BudgetStopsWalk ==
    /\ wk.pc = "loop"
    /\ Cardinality(wk.visitedRoleNames) = maxDelegations + 1
    /\ Len(wk.delegationsToVisit) > 0
    /\ wk.delegationsToVisit[Len(wk.delegationsToVisit)].roleName
         \notin wk.visitedRoleNames

\* C8: downloadBytes returns the concatenation of the chunks exactly when
\* the stream holds at most maxLength bytes; otherwise it throws, at the
\* first chunk with which the count exceeds maxLength, and returns nothing.
DownloadBounded ==
    LET consumed == SubSeq(dl.input, 1, Len(dl.input) - Len(dl.reader))
    IN /\ dl.pc = "returned" =>
            /\ dl.result = concat(dl.input)
            /\ Len(dl.result) <= dl.maxLength
       /\ dl.pc = "thrown" =>
            /\ dl.result = <<>>
            /\ Len(concat(consumed)) > dl.maxLength
            /\ Len(concat(SubSeq(consumed, 1, Len(consumed) - 1))) <= dl.maxLength
       /\ dl.pc \in {"returned", "thrown"} =>
            (dl.pc = "returned" <=> Len(concat(dl.input)) <= dl.maxLength)

\* A stream of several chunks and exactly maxLength bytes was returned.
ReturnedAtLimit ==
    /\ dl.pc = "returned"
    /\ Len(dl.input) >= 2
    /\ dl.maxLength > 0
    /\ Len(dl.result) = dl.maxLength

\* C9: a commit of a refresh is of a rank not below the rank of the
\* commits this refresh made before (Root 1, Timestamp 2, Snapshot 3,
\* Targets 4), and Targets is committed only after this refresh committed
\* the Snapshot.
CommitOrder ==
    [][(ev'.proc = "refresh" /\ ev'.res = "ok" /\ Rank(ev'.op) > 0) =>
           /\ Rank(ev'.op) >= rf.rank
           /\ ev'.op = "updateDelegatedTargets" => rf.rank = 3
      ]_vars

\* A refresh returned after it committed the top-level Targets.
RefreshCommittedTargets ==
    /\ ev.proc = "refresh"
    /\ Committed(ev, "updateDelegatedTargets")
    /\ ev.done = "ok"

\* C10: the walk of getTargetInfo takes no step while a refresh is in
\* progress.
WalkAwaitsRefresh ==
    ev.proc = "walk" => rf.pc = "idle"

\* The trusted set can take a Timestamp now, and doc is a Timestamp the
\* Root's timestamp role has signed.
TimestampOffer(doc) ==
    /\ trustedSet.timestamp # NoDoc
    /\ now < trustedSet.root.expires
    /\ doc.type = "timestamp"
    /\ MeetsThreshold(trustedSet.root.roles["timestamp"], doc)
    /\ doc.sigs \cap trustedSet.root.roles["timestamp"].keyids
         = trustedSet.root.roles["timestamp"].keyids

Rejects(r, err) == r.err = err /\ r.set = trustedSet

\* C11: with a Timestamp trusted, updateTimestamp answers BadVersion and
\* leaves the set alone for every well-signed Timestamp of a lower
\* version, and for every one of a higher version whose snapshot version
\* is lower; a refresh whose fetched timestamp is answered BadVersion
\* rejects and writes nothing.
TimestampRollbackRejected ==
    /\ [](\A doc \in TimestampDocs :
            (/\ TimestampOffer(doc)
             /\ \/ doc.version < trustedSet.timestamp.version
                \/ /\ doc.version > trustedSet.timestamp.version
                   /\ doc.snapshotMeta.version
                        < trustedSet.timestamp.snapshotMeta.version)
            => Rejects(updateTimestamp(trustedSet, doc, now), "BadVersion"))
    /\ [][(rf.pc = "timestamp_fetch" /\ ev'.op = "updateTimestamp"
             /\ ev'.res = "BadVersion")
          => /\ ev'.done = "error"
             /\ disk' = disk
             /\ trustedSet' = trustedSet]_vars

\* C11, as stated: every well-signed Timestamp whose version is lower, or
\* whose snapshot version is lower, is answered BadVersion.
TimestampRollbackAsStated ==
    \A doc \in TimestampDocs :
        (/\ TimestampOffer(doc)
         /\ \/ doc.version < trustedSet.timestamp.version
            \/ doc.snapshotMeta.version
                 < trustedSet.timestamp.snapshotMeta.version)
        => Rejects(updateTimestamp(trustedSet, doc, now), "BadVersion")

\* A refresh rejected because the fetched timestamp was a rollback.
RefreshRejectedRollback ==
    /\ ev.proc = "refresh"
    /\ ev.op = "updateTimestamp"
    /\ ev.res = "BadVersion"
    /\ ev.done = "error"
    /\ trustedSet.timestamp.version = 2

\* C12: with a Timestamp trusted, updateTimestamp answers EqualVersion for
\* every well-signed Timestamp of the trusted version; a refresh whose
\* fetched timestamp is answered EqualVersion goes on to the snapshot
\* without an error, writes nothing and leaves the trusted set alone.
EqualVersionAbsorbed ==
    /\ [](\A doc \in TimestampDocs :
            (TimestampOffer(doc) /\ doc.version = trustedSet.timestamp.version)
            => Rejects(updateTimestamp(trustedSet, doc, now), "EqualVersion"))
    /\ [][(rf.pc = "timestamp_fetch" /\ ev'.op = "updateTimestamp"
             /\ ev'.res = "EqualVersion")
          => /\ ev'.done = "none"
             /\ rf'.pc = "snapshot"
             /\ disk' = disk
             /\ trustedSet' = trustedSet]_vars

\* A refresh went on after the fetched timestamp had the trusted version.
RefreshAbsorbedEqualVersion ==
    /\ ev.proc = "refresh"
    /\ ev.op = "updateTimestamp"
    /\ ev.res = "EqualVersion"
    /\ rf.pc = "snapshot"

\* The delegated roles of doc that match path, in declared order.
Matching(doc, path) == SelectSeq(doc.delegations, LAMBDA r : path \in r.paths)

FirstTerminating(m) ==
    LET terms == {i \in 1..Len(m) : m[i].terminating}
    IN IF terms = {} THEN 0 ELSE CHOOSE i \in terms : \A j \in terms : i <= j

\* The first n roles of m as children of parent, the first of them last.
ChildrenReversed(m, n, parent) ==
    [i \in 1..n |-> Delegation(m[n + 1 - i].name, parent)]

\* C13: in a step of the walk that marks a role visited and pushes its
\* children, if a matching child is terminating the stack afterwards holds
\* the matching children up to and including the first terminating one and
\* nothing else: what was on the stack before is gone and no later
\* sibling is on it.
TerminatingCutsWalk ==
    [][(wk'.pc = "loop" /\ wk'.visitedRoleNames # wk.visitedRoleNames) =>
          LET m == Matching(trustedSet'.targets[ev'.role.roleName], ev'.path)
              t == FirstTerminating(m)
          IN t > 0 =>
               wk'.delegationsToVisit = ChildrenReversed(m, t, ev'.role.roleName)
      ]_vars

\* Role R, first of two matching children of top-level targets, was just
\* visited; its first matching child is terminating and a later one matches
\* too: the stack holds that first child only, R's sibling is gone.
TerminatingDiscardedSibling ==
    /\ wk.pc = "loop"
    /\ ev.op # "none"
    /\ ev.role.roleName \in wk.visitedRoleNames
    /\ ev.role.parentRoleName = "targets"
    /\ LET parent == Matching(trustedSet.targets["targets"], ev.path)
           m == Matching(trustedSet.targets[ev.role.roleName], ev.path)
       IN /\ Len(parent) = 2
          /\ parent[1].name = ev.role.roleName
          /\ FirstTerminating(parent) = 0
          /\ Len(m) = 2
          /\ m[1].terminating
          /\ wk.delegationsToVisit = <<Delegation(m[1].name, ev.role.roleName)>>

SnapshotDropsDelegated ==
    /\ [][Committed(ev', "updateSnapshot") =>
            \A r \in DelegatedNames : trustedSet'.targets[r] = NoDoc]_vars
    /\ [](\A r \in DelegatedNames :
            trustedSet.targets[r] # NoDoc =>
                /\ trustedSet.snapshot # NoDoc
                /\ trustedSet.targets[r].version = trustedSet.snapshot.meta[r])

\* Snapshot 2 was just committed by an Updater that had loaded role A
\* under Snapshot 1: A is no longer trusted.
SnapshotDroppedRoleA ==
    /\ Committed(ev, "updateSnapshot")
    /\ trustedSet.snapshot.version = 2
    /\ disk["A"] # NoDoc
    /\ trustedSet.targets["A"] = NoDoc

\* C16: a refresh during which a write to the metadata directory failed
\* does not return normally.
PersistFailureSurfaces ==
    (ev.proc = "refresh" /\ ev.done = "ok") => ~ev.persistFailed

\* C17: an object that was serialised and parsed again equals the object
\* it was parsed from.
RoundTrip ==
    js.pc = "parsed" => equals(js.kind, js.x, js.y)

\* The round trip of the classes other than Targets gives back the very
\* object, field by field.
RoundTripExceptTargets ==
    (js.pc = "parsed" /\ js.kind # "Targets") => js.y = js.x

\* A Root that the trusted Root's root role and its own root role have both
\* signed, offered while no Snapshot is trusted.
RootOffer(doc) ==
    /\ trustedSet.snapshot = NoDoc
    /\ doc.type = "root"
    /\ verifyDelegate(trustedSet.root, "root", doc)
    /\ verifyDelegate(doc, "root", doc)

\* C18: updateRoot answers BadVersion and leaves the set alone for every
\* well-signed Root whose version is not the trusted version plus one, and
\* every step that changes the trusted Root raises its version by exactly
\* one.
RootVersionsStepByOne ==
    /\ [](\A doc \in RootDocs :
            (RootOffer(doc) /\ doc.version # trustedSet.root.version + 1)
            => Rejects(updateRoot(trustedSet, doc), "BadVersion"))
    /\ [][trustedSet'.root # trustedSet.root
          => trustedSet'.root.version = trustedSet.root.version + 1]_vars

\* A refresh that committed Root 2 was then offered a Root of another
\* version than 3 and rejected it.
RootVersionRejected ==
    /\ ev.proc = "refresh"
    /\ ev.op = "updateRoot"
    /\ ev.res = "BadVersion"
    /\ trustedSet.root.version = 2

\* C19: a Timestamp is accepted by the trusted Root's timestamp role exactly
\* when the keyids of the role with a valid signature on it are at least
\* the role's threshold.
ThresholdDecides ==
    \A doc \in KeyedTimestamps :
        verifyDelegate(trustedSet.root, "timestamp", doc)
          <=> MeetsThreshold(trustedSet.root.roles["timestamp"], doc)

\* What does hold: an accepted Timestamp meets the threshold, and one that
\* every keyid of the role has signed is accepted when it meets it.
ThresholdNecessary ==
    \A doc \in KeyedTimestamps :
        LET role == trustedSet.root.roles["timestamp"]
        IN /\ verifyDelegate(trustedSet.root, "timestamp", doc)
                => MeetsThreshold(role, doc)
           /\ (role.keyids \subseteq doc.sigs /\ MeetsThreshold(role, doc))
                => verifyDelegate(trustedSet.root, "timestamp", doc)

\* A Snapshot is trusted, and doc is a Snapshot of the version the trusted
\* Timestamp names that the Root's snapshot role has signed.
SnapshotOffer(doc) ==
    /\ trustedSet.timestamp # NoDoc
    /\ trustedSet.snapshot # NoDoc
    /\ ~isExpired(trustedSet.timestamp, now)
    /\ doc.type = "snapshot"
    /\ verifyDelegate(trustedSet.root, "snapshot", doc)
    /\ doc.version = trustedSet.timestamp.snapshotMeta.version

\* C20: with a Snapshot trusted, updateSnapshot answers BadVersion and
\* leaves the set alone for every well-signed Snapshot in which a role the
\* trusted Snapshot lists is missing (0) or listed with a lower version; a
\* step that replaces a trusted Snapshot keeps every listed role and lowers
\* no listed version.
SnapshotListingMonotonic ==
    /\ [](\A doc \in SnapshotDocs :
            (/\ SnapshotOffer(doc)
             /\ \E r \in TargetsRoleNames :
                  /\ trustedSet.snapshot.meta[r] > 0
                  /\ doc.meta[r] < trustedSet.snapshot.meta[r])
            => Rejects(updateSnapshot(trustedSet, doc, FALSE, now), "BadVersion"))
    /\ [][(trustedSet.snapshot # NoDoc /\ trustedSet'.snapshot # NoDoc)
          => \A r \in TargetsRoleNames :
                /\ trustedSet.snapshot.meta[r] > 0 => trustedSet'.snapshot.meta[r] > 0
                /\ trustedSet'.snapshot.meta[r] >= trustedSet.snapshot.meta[r]]_vars

\* With Snapshot 1 trusted, which lists targets at version 2, and
\* Timestamp 2 trusted, the fetched snapshot was answered BadVersion and
\* the refresh rejected.
SnapshotListingRejected ==
    /\ ev.proc = "refresh"
    /\ ev.op = "updateSnapshot"
    /\ ev.res = "BadVersion"
    /\ ev.done = "error"
    /\ trustedSet.snapshot # NoDoc
    /\ trustedSet.snapshot.version = 1
    /\ trustedSet.snapshot.meta["targets"] = 2
    /\ trustedSet.timestamp.snapshotMeta.version = 2

\* The last step was a load of a targets role that threw while the trusted
\* Snapshot has no entry for the role.
MissingEntryThrown ==
    /\ ev.done = "error"
    /\ ev.role # NoRoleLoaded
    /\ ev.op \in {"read", "updateDelegatedTargets"}
    /\ trustedSet.snapshot # NoDoc
    /\ trustedSet.snapshot.meta[ev.role.roleName] = 0

\* C21: a load of a targets role that the trusted Snapshot has no entry
\* for fails with RepositoryError.
MissingEntryIsRepositoryError ==
    MissingEntryThrown => ev.res = "RepositoryError"

\* What does hold: the load throws before any fetch, and the role is not
\* trusted afterwards.
MissingEntryNotLoaded ==
    MissingEntryThrown =>
        /\ ev.proc = "refresh" => rf.pc = "idle"
        /\ ev.proc = "walk" => wk.pc = "idle"
        /\ getRole(trustedSet, ev.role.roleName) = NoDoc

\* C22: a root rotation loop that ends with the trusted Root expired ends
\* the refresh there, with ExpiredMetadata.
ExpiredRootEndsRefresh ==
    [][(rf.pc = "root_fetch" /\ rf'.pc # "root_fetch"
          /\ isExpired(trustedSet'.root, now'))
       => (rf'.pc = "idle" /\ ev'.done = "error" /\ ev'.res = "ExpiredMetadata")]_vars

\* What does hold: with the trusted Root expired, the steps of loadTimestamp
\* commit and write nothing, and the refresh ends in an error when the
\* fetch of timestamp.json ends.
ExpiredRootCommitsNothing ==
    [][(rf.pc \in {"timestamp", "timestamp_fetch"} /\ rf' # rf
          /\ isExpired(trustedSet.root, now))
       => /\ trustedSet' = trustedSet
          /\ disk' = disk
          /\ rf.pc = "timestamp" => rf'.pc = "timestamp_fetch"
          /\ rf.pc = "timestamp_fetch" => (rf'.pc = "idle" /\ ev'.done = "error")]_vars

RootParsed == js.pc = "parsed" /\ js.kind = "Root" /\ js.y # Thrown

\* C25: in every Root that parsing accepted, no role lists a keyid twice,
\* every threshold is at least 1, and every keyid a role lists is in the
\* Root's keys.
RootInvariants ==
    RootParsed =>
        \A r \in DOMAIN js.y.roles :
            LET role == js.y.roles[r]
            IN /\ ~hasDuplicates(role.keyIDs)
               /\ role.threshold >= 1
               /\ \A i \in DOMAIN role.keyIDs : role.keyIDs[i] \in DOMAIN js.y.keys

\* What does hold: the keyid lists have no duplicates and the thresholds
\* are at least 1.
RootRolesWellFormed ==
    RootParsed =>
        \A r \in DOMAIN js.y.roles :
            /\ ~hasDuplicates(js.y.roles[r].keyIDs)
            /\ js.y.roles[r].threshold >= 1

\* C26: a Root is always trusted; a trusted Snapshot comes with a trusted
\* Timestamp; a trusted Targets role, top-level or delegated, comes with a
\* trusted Snapshot; a trusted delegated role comes with the top-level
\* Targets trusted.
PrefixClosed ==
    /\ trustedSet.root # NoDoc
    /\ trustedSet.snapshot # NoDoc => trustedSet.timestamp # NoDoc
    /\ \A r \in TargetsRoleNames :
          trustedSet.targets[r] # NoDoc => trustedSet.snapshot # NoDoc
    /\ \A r \in DelegatedNames :
          trustedSet.targets[r] # NoDoc => trustedSet.targets["targets"] # NoDoc

\* The walk has just committed the delegated role A.
DelegatedRoleTrusted ==
    /\ ev.proc = "walk"
    /\ Committed(ev, "updateDelegatedTargets")
    /\ trustedSet.targets["A"] # NoDoc

\* C27: when a refresh returns normally, the trusted Snapshot has the
\* version the trusted Timestamp names, and every trusted Targets role has
\* the version the trusted Snapshot lists for it.
RefreshVersionConsistent ==
    (ev.proc = "refresh" /\ ev.done = "ok") =>
        /\ trustedSet.snapshot.version = trustedSet.timestamp.snapshotMeta.version
        /\ \A r \in TargetsRoleNames :
              trustedSet.targets[r] # NoDoc =>
                  trustedSet.targets[r].version = trustedSet.snapshot.meta[r]

\* What does hold: the Snapshot has the version the Timestamp names, and a
\* Targets that the refresh itself committed has the listed version.
RefreshSnapshotConsistent ==
    (ev.proc = "refresh" /\ ev.done = "ok") =>
        /\ trustedSet.snapshot.version = trustedSet.timestamp.snapshotMeta.version
        /\ ev.op = "updateDelegatedTargets" =>
              trustedSet.targets["targets"].version = trustedSet.snapshot.meta["targets"]

\* The last step of the walk obtained the metadata of a delegated role
\* through a parent Targets.
ConsultedThroughParent ==
    /\ ev.proc = "walk"
    /\ ev.res = "ok"
    /\ ev.role.roleName \in DelegatedNames
    /\ ev.role.parentRoleName \in TargetsRoleNames
    /\ trustedSet.targets[ev.role.roleName] # NoDoc

\* C28: a delegated role that the walk consults through a parent carries
\* the signatures that this parent's delegations require for it.
ConsultedVerifiedUnderParent ==
    ConsultedThroughParent =>
        verifyDelegate(trustedSet.targets[ev.role.parentRoleName],
                       ev.role.roleName, trustedSet.targets[ev.role.roleName])

\* What does hold: a delegated role that the walk has just committed
\* carries the signatures its parent requires.
CommittedVerifiedUnderParent ==
    (ConsultedThroughParent /\ ev.op = "updateDelegatedTargets") =>
        verifyDelegate(trustedSet.targets[ev.role.parentRoleName],
                       ev.role.roleName, trustedSet.targets[ev.role.roleName])

\* A refresh is fetching the Root that follows the trusted one, and doc is
\* such a Root, signed as the trusted Root and doc itself require.
NextRootServed(doc) ==
    /\ rf.pc = "root_fetch"
    /\ rf.version = trustedSet.root.version + 1
    /\ doc.type = "root"
    /\ doc.version = rf.version
    /\ verifyDelegate(trustedSet.root, "root", doc)
    /\ verifyDelegate(doc, "root", doc)

\* C29: a refresh that is served the next Root, correctly signed, commits
\* it.
RootAdopted ==
    \A doc \in RootDocs :
        NextRootServed(doc) => updateRoot(trustedSet, doc) = Result("ok", [trustedSet EXCEPT !.root = doc])

\* What does hold: the next Root is committed as long as the Updater has no
\* trusted Snapshot.
RootAdoptedBeforeSnapshot ==
    \A doc \in RootDocs :
        (NextRootServed(doc) /\ trustedSet.snapshot = NoDoc)
            => updateRoot(trustedSet, doc) = Result("ok", [trustedSet EXCEPT !.root = doc])

\* C30: no update operation accepts a document whose type is not the one
\* it parses for, and every document of the trusted set has the type of
\* its slot.
TypedSlots ==
    /\ trustedSet.root.type = "root"
    /\ trustedSet.timestamp # NoDoc => trustedSet.timestamp.type = "timestamp"
    /\ trustedSet.snapshot # NoDoc => trustedSet.snapshot.type = "snapshot"
    /\ \A r \in TargetsRoleNames :
          trustedSet.targets[r] # NoDoc => trustedSet.targets[r].type = "targets"
    /\ \A doc \in UNION {Served(kind) : kind \in TopRoles} :
          /\ doc.type # "root" => updateRoot(trustedSet, doc).err # "ok"
          /\ doc.type # "timestamp" => updateTimestamp(trustedSet, doc, now).err # "ok"
          /\ doc.type # "snapshot" =>
                \A trusted \in BOOLEAN :
                    updateSnapshot(trustedSet, doc, trusted, now).err # "ok"
          /\ doc.type # "targets" =>
                updateDelegatedTargets(trustedSet, doc, "targets", "root", now).err # "ok"

\* A refresh with a trusted Snapshot that lists targets.json at version 1
\* was served a document that is not a Targets as targets.json, and
\* rejected it.
WrongTypeRejected ==
    /\ ev.proc = "refresh"
    /\ ev.op = "updateDelegatedTargets"
    /\ ev.res = "MalformedMetadata"
    /\ ev.done = "error"
    /\ trustedSet.snapshot.meta["targets"] = 1
    /\ trustedSet.targets["targets"] = NoDoc

\* The trusted metadata of a role, top-level or delegated.
Trusted(set, role) ==
    CASE role = "root" -> set.root
      [] role = "timestamp" -> set.timestamp
      [] role = "snapshot" -> set.snapshot
      [] OTHER -> set.targets[role]

\* C31: when a refresh returns normally, root.json, timestamp.json,
\* snapshot.json and targets.json hold the trusted metadata of their roles.
DirectoryAgrees ==
    (ev.proc = "refresh" /\ ev.done = "ok") =>
        \A role \in TopRoles : disk[role] = Trusted(trustedSet, role)

\* What does hold: a file of the metadata directory changes only in a step
\* that commits metadata of its role, and then it holds the metadata just
\* committed; so every file holds metadata that was committed for its role.
DirectoryHoldsCommitted ==
    [][\A role \in DOMAIN disk :
          disk'[role] # disk[role] =>
              /\ ev'.res = "ok"
              /\ ev'.op \in UpdateOps
              /\ disk'[role] = Trusted(trustedSet', role)]_vars

====
